---- MODULE Spec2Model ----
(***************************************************************************)
(* Annual-payment mortgage calculator (PaulReadCFA/lm2los1mortgage).       *)
(*                                                                         *)
(* computeMortgage (src/modules/calculations.js) is modelled as an         *)
(* operator over binary floating-point numbers.  A JavaScript Number is an *)
(* IEEE-754 binary64; the model keeps the same arithmetic (sign,           *)
(* significand, exponent, round-to-nearest-even after every operation,     *)
(* Infinity and NaN) but carries Precision significand bits instead of 53, *)
(* so that every intermediate integer stays below 2^31.  The exponent      *)
(* range is not bounded: overflow and underflow do not occur for the       *)
(* inputs the model draws.  Signed zero is not distinguished.              *)
(*                                                                         *)
(* Around the engine the module holds the page of src/calculator.js (the   *)
(* shared state, validation, the debounced updates of the three fields,    *)
(* recalc and the view toggle; a call of the engine runs step by step      *)
(* between the two halves of the handler that makes it, and no other       *)
(* handler runs meanwhile) and the chart module's keyboard navigation      *)
(* (renderChart and the listeners it registers on the canvas).             *)
(***************************************************************************)
EXTENDS Integers, Sequences, FiniteSets, TLC

VARIABLES
  inputs,          \* the argument { loanAmount, annualRate, years } of the call
  result,          \* the value { payment, schedule, totals } the call returned
  pc,              \* where the call stands
  P, r, n,         \* lines 10-12
  payment,         \* line 15 or line 32
  bal, y, schedule,
  totalInterest, totalPrincipal,
  state,           \* the shared object of state.js
  el,              \* the text of the three input fields
  timeouts,        \* the pending setTimeout callbacks of the debounced updates
  dom,             \* what the page presents
  caller,          \* the handler of calculator.js that is running
  burst,           \* per field: the events since the update body last ran
  chart            \* the chart module: its variables and the canvas listeners

engineVars == <<inputs, result, pc, P, r, n, payment, bal, y, schedule,
                totalInterest, totalPrincipal>>

pageVars == <<state, el, timeouts, dom, caller, burst>>

callerVars == <<state, el, timeouts, dom, caller, burst, chart>>

vars == <<inputs, result, pc, P, r, n, payment, bal, y, schedule,
          totalInterest, totalPrincipal, state, el, timeouts, dom, caller, burst,
          chart>>

----------------------------------------------------------------------------
(* Bounds of the model *)

\* significand bits carried by a Number (binary64 carries 53)
Precision == 14

\* terms 1..MaxYears are drawn besides the reference terms
MaxYears == 4

\* the renders of the chart a behaviour holds, and the rows of a chart
MaxRenders == 3

MaxRows == 3

----------------------------------------------------------------------------
(* JavaScript Number arithmetic *)

Pow2(k) == 2 ^ k

Abs(i) == IF i < 0 THEN -i ELSE i

\* the number of bits of M, 0 <= M < 2^30
BitLen(M) == CHOOSE L \in 0..30 : M < Pow2(L) /\ (L = 0 \/ M >= Pow2(L - 1))

\* value s * m * 2^e; a finite non-zero Number has Pow2(Precision-1) <= m < Pow2(Precision)
Zero == [k |-> "fin", s |-> 1, m |-> 0, e |-> 0]

Infinity(s) == [k |-> "inf", s |-> s, m |-> 0, e |-> 0]

NaN == [k |-> "nan", s |-> 1, m |-> 0, e |-> 0]

IsNaN(a) == a.k = "nan"

IsFinite(a) == a.k = "fin"

IsZero(a) == a.k = "fin" /\ a.m = 0

\* Round s * (M + f) * 2^E to Precision bits, ties to even, where 0 <= f < 1
\* and f > 0 exactly when sticky is TRUE.
RoundNumber(s, M, E, sticky) ==
  IF M = 0 THEN Zero
  ELSE LET L == BitLen(M) IN
    IF L <= Precision
    THEN [k |-> "fin", s |-> s, m |-> M * Pow2(Precision - L), e |-> E - (Precision - L)]
    ELSE LET sh   == L - Precision
             q    == M \div Pow2(sh)
             rem  == M % Pow2(sh)
             half == Pow2(sh - 1)
             up   == rem > half \/ (rem = half /\ (sticky \/ q % 2 = 1))
             m1   == IF up THEN q + 1 ELSE q
         IN IF m1 = Pow2(Precision)
            THEN [k |-> "fin", s |-> s, m |-> Pow2(Precision - 1), e |-> E + sh + 1]
            ELSE [k |-> "fin", s |-> s, m |-> m1, e |-> E + sh]

\* the Number nearest to the literal M * 2^E
Lit(M, E) == RoundNumber(IF M < 0 THEN -1 ELSE 1, Abs(M), E, FALSE)

FromInt(i) == Lit(i, 0)

FNeg(a) == IF a.k = "nan" \/ IsZero(a) THEN a ELSE [a EXCEPT !.s = -a.s]

FMul(a, b) ==
  IF IsNaN(a) \/ IsNaN(b) THEN NaN
  ELSE IF a.k = "inf" \/ b.k = "inf"
       THEN IF IsZero(a) \/ IsZero(b) THEN NaN ELSE Infinity(a.s * b.s)
  ELSE IF IsZero(a) \/ IsZero(b) THEN Zero
  ELSE RoundNumber(a.s * b.s, a.m * b.m, a.e + b.e, FALSE)

FDiv(a, b) ==
  IF IsNaN(a) \/ IsNaN(b) THEN NaN
  ELSE IF a.k = "inf" THEN (IF b.k = "inf" THEN NaN ELSE Infinity(a.s * b.s))
  ELSE IF b.k = "inf" THEN Zero
  ELSE IF IsZero(b) THEN (IF IsZero(a) THEN NaN ELSE Infinity(a.s))
  ELSE IF IsZero(a) THEN Zero
  ELSE LET n1 == a.m * Pow2(Precision)
           q1 == n1 \div b.m
           r1 == n1 % b.m
           q2 == (r1 * 8) \div b.m
           r2 == (r1 * 8) % b.m
       IN RoundNumber(a.s * b.s, q1 * 8 + q2, a.e - b.e - Precision - 3, r2 # 0)

\* a + b for finite non-zero a, b with a.e >= b.e: three guard bits and a sticky bit
AddAligned(a, b) ==
  LET d     == a.e - b.e
      T     == b.m * 8
      far   == d >= Precision + 4
      q     == IF far THEN 0 ELSE T \div Pow2(d)
      inex  == IF far THEN TRUE ELSE T % Pow2(d) # 0
      A     == a.m * 8
  IN IF a.s = b.s
     THEN RoundNumber(a.s, A + q, a.e - 3, inex)
     ELSE IF inex
          THEN RoundNumber(a.s, A - q - 1, a.e - 3, TRUE)
          ELSE IF A = q THEN Zero
               ELSE RoundNumber(IF A > q THEN a.s ELSE b.s, Abs(A - q), a.e - 3, FALSE)

FAdd(a, b) ==
  IF IsNaN(a) \/ IsNaN(b) THEN NaN
  ELSE IF a.k = "inf" THEN (IF b.k = "inf" /\ b.s # a.s THEN NaN ELSE a)
  ELSE IF b.k = "inf" THEN b
  ELSE IF IsZero(a) THEN b
  ELSE IF IsZero(b) THEN a
  ELSE IF a.e >= b.e THEN AddAligned(a, b) ELSE AddAligned(b, a)

FSub(a, b) == FAdd(a, FNeg(b))

\* -1, 0, 1 as a < b, a = b, a > b; neither operand is NaN
Cmp(a, b) ==
  IF a = b THEN 0
  ELSE IF a.k = "inf" THEN a.s
  ELSE IF b.k = "inf" THEN -b.s
  ELSE LET dd == FSub(a, b) IN IF IsZero(dd) THEN 0 ELSE dd.s

\* a === b
FEq(a, b) == ~IsNaN(a) /\ ~IsNaN(b) /\ Cmp(a, b) = 0

\* a <= b
FLe(a, b) == ~IsNaN(a) /\ ~IsNaN(b) /\ Cmp(a, b) <= 0

\* a < b
FLt(a, b) == ~IsNaN(a) /\ ~IsNaN(b) /\ Cmp(a, b) < 0

\* Math.max(a, b)
MathMax(a, b) ==
  IF IsNaN(a) \/ IsNaN(b) THEN NaN
  ELSE IF Cmp(a, b) >= 0 THEN a ELSE b

\* the integer value of an integral finite Number
ToInt(x) == IF x.e >= 0 THEN x.s * x.m * Pow2(x.e) ELSE x.s * (x.m \div Pow2(-x.e))

\* the integer floor(x + 1/2) of a finite x
RoundHalfUp(x) ==
  IF x.e >= 0 THEN x.s * x.m * Pow2(x.e)
  ELSE IF -x.e > Precision + 1 THEN 0
  ELSE (x.s * x.m * 2 + Pow2(-x.e)) \div Pow2(1 - x.e)

\* Math.round replaced by truncation (Math.floor, parseInt)
MathRoundTruncating(x) == IF IsFinite(x) THEN FromInt(ToInt(x)) ELSE x

\* Math.round(x): the integer nearest to x, halves towards +Infinity
MathRound(x) == IF IsFinite(x) THEN FromInt(RoundHalfUp(x)) ELSE x

\* acc * b^i by binary exponentiation, every product rounded
RECURSIVE PowLoop(_, _, _)
PowLoop(acc, b, i) ==
  IF i = 0 THEN acc
  ELSE PowLoop(IF i % 2 = 1 THEN FMul(acc, b) ELSE acc, FMul(b, b), i \div 2)

\* Math.pow(b, x) for an integral or NaN exponent x
MathPow(b, x) ==
  IF IsNaN(x) THEN NaN
  ELSE IF IsZero(x) THEN FromInt(1)
  ELSE IF IsNaN(b) THEN NaN
  ELSE IF x.s > 0 THEN PowLoop(FromInt(1), b, ToInt(x))
  ELSE FDiv(FromInt(1), PowLoop(FromInt(1), b, -ToInt(x)))

----------------------------------------------------------------------------
(* computeMortgage *)

\* the zero-rate principal component without the final-year override
ZeroRatePrincipalNoClamp(year, term, balance, pmt) == pmt

\* line 19: the final year pays off the whole remaining balance
ZeroRatePrincipal(year, term, balance, pmt) ==
  IF FEq(FromInt(year), term) THEN balance ELSE pmt

\* the balance update without Math.max(0, .)
NextBalanceUnclamped(balance, principal) == FSub(balance, principal)

\* lines 21 and 46
NextBalance(balance, principal) == MathMax(Zero, FSub(balance, principal))

Row(year, pmt, interest, principal, balance) ==
  [year |-> year, payment |-> pmt, interest |-> interest,
   principal |-> principal, endingBalance |-> balance]

\* line 32
AnnuityDenominator(rate, term) == FSub(MathPow(FAdd(FromInt(1), rate), term), FromInt(1))

AnnuityPayment(loan, rate, term) ==
  FDiv(FMul(loan, FMul(rate, MathPow(FAdd(FromInt(1), rate), term))),
       AnnuityDenominator(rate, term))

\* line 40
YearInterest(balance, rate) == FMul(balance, rate)

\* the principal component without the final-year override
PositiveRatePrincipalNoClamp(year, term, balance, pmt, interest) == FSub(pmt, interest)

\* the override applied whenever the balance is below the regular component
PositiveRatePrincipalCapped(year, term, balance, pmt, interest) ==
  IF FLt(balance, FSub(pmt, interest)) THEN balance ELSE FSub(pmt, interest)

\* lines 41-44: clamp final year to clear balance
PositiveRatePrincipal(year, term, balance, pmt, interest) ==
  IF FEq(FromInt(year), term) THEN balance ELSE FSub(pmt, interest)

\* Number(x) of a value that already is a Number
Number(x) == x

----------------------------------------------------------------------------
(* Callers of the engine: inputs with principal > 0, rate >= 0, term >= 1 *)

\* loan amounts, among them those of runSelfTests
LoanAmounts == {FromInt(1000), FromInt(100000), FromInt(120000), FromInt(300000)}

\* rates in percent: 0, 2^-40, 2^-9, 2^-7, 1/2, 6.5, 10, 25
AnnualRates == {Zero, Lit(1, -40), Lit(1, -9), Lit(1, -7), Lit(1, -1), Lit(13, -1),
                FromInt(10), FromInt(25)}

\* terms in years: 1..MaxYears, 1.5, 2.5, 2.25 and the terms of runSelfTests
Terms == {FromInt(i) : i \in 1..MaxYears} \cup
         {Lit(3, -1), Lit(5, -1), Lit(9, -2), FromInt(5), FromInt(10), FromInt(30)}

ValidInputs == [loanAmount : LoanAmounts, annualRate : AnnualRates, years : Terms]

NoTotals == [payment |-> NaN, interest |-> NaN, principal |-> NaN]

NoResult == [payment |-> NaN, schedule |-> <<>>, totals |-> NoTotals]

\* null, and a value that is not null
Null == <<>>

Some(v) == <<v>>

Fields == {"loanAmount", "annualRate", "years"}

\* state.js lines 2-19
InitialState ==
  [loanAmount |-> FromInt(300000), annualRate |-> Lit(13, -1), years |-> FromInt(30),
   viewMode |-> "chart", schedule |-> Null, payment |-> Null, totals |-> Null,
   errors |-> <<>>]

\* the page before any rendering: no results card, no chart, no table
EmptyPage == [results |-> Null, chart |-> Null, table |-> Null, summary |-> {}]

NoHandler == [kind |-> "none", id |-> "", val |-> NaN, errors |-> <<>>]

\* per field: whether an event happened, the ms since the last event (up to
\* the run of the body) and the runs of the body since the last event;
\* restarted: the latest event found the timer of its field pending
NoBurst ==
  [of |-> [f \in Fields |-> [events |-> 0, since |-> 0, runs |-> 0]],
   restarted |-> FALSE]

\* utils.js lines 66-68, and a canvas without listeners
NoChart ==
  [chartInstance |-> Null, currentFocusIndex |-> 0, isKeyboardMode |-> FALSE,
   listeners |-> [keydown |-> <<>>, focus |-> <<>>, blur |-> <<>>, mousemove |-> <<>>],
   keydownListener |-> Null, containerListeners |-> 0,
   renders |-> 0, focused |-> FALSE, invoked |-> <<>>, reads |-> <<>>]

\* the page is not loaded: the engine is called on its own
CallerAtRest ==
  /\ state = InitialState
  /\ el = [f \in Fields |-> ""]
  /\ timeouts = {}
  /\ dom = EmptyPage
  /\ caller = NoHandler
  /\ burst = NoBurst
  /\ chart = NoChart

\* the locals of computeMortgage before a call assigns them
NoLocals ==
  /\ P = NaN /\ r = NaN /\ n = NaN /\ payment = NaN /\ bal = NaN
  /\ y = 0 /\ schedule = <<>> /\ totalInterest = NaN /\ totalPrincipal = NaN

Init ==
  /\ inputs \in ValidInputs
  /\ result = NoResult
  /\ pc = "ready"
  /\ NoLocals
  /\ CallerAtRest

\* lines 10-17: a call at rate 0 enters the zero-rate branch
EnterZeroRate ==
  /\ pc = "ready"
  /\ FEq(FDiv(Number(inputs.annualRate), FromInt(100)), Zero)
  /\ P' = Number(inputs.loanAmount)
  /\ r' = FDiv(Number(inputs.annualRate), FromInt(100))
  /\ n' = MathRound(Number(inputs.years))
  /\ payment' = FDiv(P', n')
  /\ schedule' = <<>>
  /\ bal' = P'
  /\ y' = 1
  /\ pc' = "zeroRateLoop"
  /\ UNCHANGED <<inputs, result, totalInterest, totalPrincipal>>
  /\ UNCHANGED callerVars

\* lines 18-23: one iteration of the zero-rate loop
ZeroRateIteration ==
  /\ pc = "zeroRateLoop"
  /\ FLe(FromInt(y), n)
  /\ LET principal == ZeroRatePrincipal(y, n, bal, payment)
         interest  == Zero
     IN /\ bal' = NextBalance(bal, principal)
        /\ schedule' = Append(schedule, Row(y, payment, interest, principal, bal'))
  /\ y' = y + 1
  /\ UNCHANGED <<inputs, result, pc, P, r, n, payment, totalInterest, totalPrincipal>>
  /\ UNCHANGED callerVars

\* lines 24-29: the zero-rate branch returns
ZeroRateReturn ==
  /\ pc = "zeroRateLoop"
  /\ ~FLe(FromInt(y), n)
  /\ result' = [payment  |-> payment,
                schedule |-> schedule,
                totals   |-> [payment |-> FMul(payment, n), interest |-> Zero, principal |-> P]]
  /\ pc' = "returned"
  /\ UNCHANGED <<inputs, P, r, n, payment, bal, y, schedule, totalInterest, totalPrincipal>>
  /\ UNCHANGED callerVars

\* the running totals hoisted out of the function: set to 0 once, then kept
EnterPositiveRateSharedTotals ==
  /\ pc = "ready"
  /\ ~FEq(FDiv(Number(inputs.annualRate), FromInt(100)), Zero)
  /\ P' = Number(inputs.loanAmount)
  /\ r' = FDiv(Number(inputs.annualRate), FromInt(100))
  /\ n' = MathRound(Number(inputs.years))
  /\ payment' = AnnuityPayment(P', r', n')
  /\ schedule' = <<>>
  /\ bal' = P'
  /\ totalInterest' = IF IsNaN(totalInterest) THEN Zero ELSE totalInterest
  /\ totalPrincipal' = IF IsNaN(totalPrincipal) THEN Zero ELSE totalPrincipal
  /\ y' = 1
  /\ pc' = "positiveRateLoop"
  /\ UNCHANGED <<inputs, result>>
  /\ UNCHANGED callerVars

\* lines 10-14 and 32-37: a call at a non-zero rate computes the level payment
EnterPositiveRate ==
  /\ pc = "ready"
  /\ ~FEq(FDiv(Number(inputs.annualRate), FromInt(100)), Zero)
  /\ P' = Number(inputs.loanAmount)
  /\ r' = FDiv(Number(inputs.annualRate), FromInt(100))
  /\ n' = MathRound(Number(inputs.years))
  /\ payment' = AnnuityPayment(P', r', n')
  /\ schedule' = <<>>
  /\ bal' = P'
  /\ totalInterest' = Zero
  /\ totalPrincipal' = Zero
  /\ y' = 1
  /\ pc' = "positiveRateLoop"
  /\ UNCHANGED <<inputs, result>>
  /\ UNCHANGED callerVars

\* lines 39-57: one iteration of the positive-rate loop
PositiveRateIteration ==
  /\ pc = "positiveRateLoop"
  /\ FLe(FromInt(y), n)
  /\ LET interest  == YearInterest(bal, r)
         principal == PositiveRatePrincipal(y, n, bal, payment, interest)
     IN /\ bal' = NextBalance(bal, principal)
        /\ totalInterest' = FAdd(totalInterest, interest)
        /\ totalPrincipal' = FAdd(totalPrincipal, principal)
        /\ schedule' = Append(schedule, Row(y, payment, interest, principal, bal'))
  /\ y' = y + 1
  /\ UNCHANGED <<inputs, result, pc, P, r, n, payment>>
  /\ UNCHANGED callerVars

\* lines 59-67: the positive-rate branch returns
PositiveRateReturn ==
  /\ pc = "positiveRateLoop"
  /\ ~FLe(FromInt(y), n)
  /\ result' = [payment  |-> payment,
                schedule |-> schedule,
                totals   |-> [payment   |-> FMul(payment, n),
                              interest  |-> totalInterest,
                              principal |-> totalPrincipal]]
  /\ pc' = "returned"
  /\ UNCHANGED <<inputs, P, r, n, payment, bal, y, schedule, totalInterest, totalPrincipal>>
  /\ UNCHANGED callerVars

\* the next invocation starts from fresh inputs and fresh locals
NextCall ==
  /\ pc = "returned"
  /\ inputs' \in ValidInputs
  /\ result' = NoResult
  /\ pc' = "ready"
  /\ P' = NaN /\ r' = NaN /\ n' = NaN /\ payment' = NaN /\ bal' = NaN
  /\ y' = 0 /\ schedule' = <<>> /\ totalInterest' = NaN /\ totalPrincipal' = NaN
  /\ UNCHANGED callerVars

Next ==
  \/ EnterZeroRate
  \/ ZeroRateIteration
  \/ ZeroRateReturn
  \/ EnterPositiveRate
  \/ PositiveRateIteration
  \/ PositiveRateReturn
  \/ NextCall

Spec == Init /\ [][Next]_vars

----------------------------------------------------------------------------
(* Callers that skip validation: the engine itself validates nothing *)

\* loan amounts, among them 0 and a negative one
AnyLoanAmounts == {FromInt(-1000), Zero, FromInt(1000), FromInt(300000)}

\* rates in percent: 0, 2^-40, 6.5
AnyRates == {Zero, Lit(1, -40), Lit(13, -1)}

\* terms in years: NaN, -2, 0, 0.25, 0.5 and 1..MaxYears
AnyTerms == {NaN, FromInt(-2), Zero, Lit(1, -2), Lit(1, -1)} \cup
            {FromInt(i) : i \in 1..MaxYears}

AnyInputs == [loanAmount : AnyLoanAmounts, annualRate : AnyRates, years : AnyTerms]

InitAny ==
  /\ inputs \in AnyInputs
  /\ result = NoResult
  /\ pc = "ready"
  /\ NoLocals
  /\ CallerAtRest

NextCallAny ==
  /\ pc = "returned"
  /\ inputs' \in AnyInputs
  /\ result' = NoResult
  /\ pc' = "ready"
  /\ P' = NaN /\ r' = NaN /\ n' = NaN /\ payment' = NaN /\ bal' = NaN
  /\ y' = 0 /\ schedule' = <<>> /\ totalInterest' = NaN /\ totalPrincipal' = NaN
  /\ UNCHANGED callerVars

NextAny ==
  \/ EnterZeroRate
  \/ ZeroRateIteration
  \/ ZeroRateReturn
  \/ EnterPositiveRate
  \/ PositiveRateIteration
  \/ PositiveRateReturn
  \/ NextCallAny

SpecAny == InitAny /\ [][NextAny]_vars

----------------------------------------------------------------------------
(* The page: validation, debounced field updates, recalc, view toggle *)

\* calculator.js line 106: the wait of the debounced update, in ms
DebounceWait == 150

\* the amounts of time that pass between two steps of the page, in ms
TimeSteps == {75}

\* the texts a user types into each field
FieldTexts ==
  [loanAmount |-> {"500"},
   annualRate |-> {"0"},
   years      |-> {"2", "0.25"}]

\* the texts of the fields when the page loads: the defaults of state.js
InitialTexts == [loanAmount |-> "300000", annualRate |-> "6.5", years |-> "30"]

\* parseFloat on the texts of the fields: the empty text gives NaN
parseFloat(text) ==
  CASE text = "300000" -> FromInt(300000)
    [] text = "500"    -> FromInt(500)
    [] text = "6.5"    -> Lit(13, -1)
    [] text = "30"     -> FromInt(30)
    [] text = "0"      -> Zero
    [] text = "2"      -> FromInt(2)
    [] text = "0.25"   -> Lit(1, -2)
    [] OTHER           -> NaN

validationRules ==
  [loanAmount |-> [min |-> FromInt(1000), max |-> FromInt(10000000)],
   annualRate |-> [min |-> Zero,          max |-> FromInt(25)],
   years      |-> [min |-> FromInt(1),    max |-> FromInt(40)]]

\* validateField without the lower limit
validateFieldNoMin(field, value) ==
  IF IsNaN(value) THEN "required"
  ELSE IF FLt(validationRules[field].max, value) THEN "range"
  ELSE "null"

\* the kind of message validateField returns, "null" for no error
validateField(field, value) ==
  IF IsNaN(value) THEN "required"
  ELSE IF FLt(value, validationRules[field].min) \/ FLt(validationRules[field].max, value)
       THEN "range"
  ELSE "null"

\* the errors object: one key per field in error
validateAllInputs(in) ==
  [f \in {g \in Fields : validateField(g, in[g]) # "null"} |-> validateField(f, in[f])]

\* Object.assign(obj, updates)
Assign(obj, updates) ==
  [k \in DOMAIN obj |-> IF k \in DOMAIN updates THEN updates[k] ELSE obj[k]]

\* !s.payment: null, 0 and NaN are falsy
Falsy(pmt) == pmt = Null \/ IsNaN(pmt[1]) \/ IsZero(pmt[1])

\* the chart drawn for rows: one bar per row
renderChart(rows) == Some(Len(rows))

\* the table drawn for rows: one line per row and a footer of totals
renderScheduleTable(rows, totals) == Some(Len(rows))

\* the page after handleStateChange(s): nothing is touched when a result
\* field is null
handleStateChange(s, page) ==
  IF s.schedule = Null \/ Falsy(s.payment) \/ s.totals = Null
  THEN page
  ELSE [page EXCEPT
          !.results = Some([payment |-> s.payment[1], totals |-> s.totals[1],
                            years |-> s.years]),
          !.chart = IF s.viewMode = "chart" THEN renderChart(s.schedule[1]) ELSE @,
          !.table = IF s.viewMode = "table"
                    THEN renderScheduleTable(s.schedule[1], s.totals[1])
                    ELSE @]

\* setState(updates) on a page: assign, then notify the one listener
setState(updates, page) ==
  /\ state' = Assign(state, updates)
  /\ dom' = handleStateChange(Assign(state, updates), page)

\* the failure branches forgetting the payment
NoResultFieldsKeepPayment == [schedule |-> Null, totals |-> Null]

NoResultFields == [schedule |-> Null, payment |-> Null, totals |-> Null]

ResultFields(res) ==
  [payment |-> Some(res.payment), schedule |-> Some(res.schedule),
   totals |-> Some(res.totals)]

\* the update body ignoring the value just read
CurrentValuesStale(id, val) ==
  [loanAmount |-> state.loanAmount, annualRate |-> state.annualRate,
   years |-> state.years]

\* calculator.js lines 64-68
CurrentValues(id, val) ==
  [loanAmount |-> IF id = "loanAmount" THEN val ELSE state.loanAmount,
   annualRate |-> IF id = "annualRate" THEN val ELSE state.annualRate,
   years      |-> IF id = "years" THEN val ELSE state.years]

\* clearTimeout that cancels nothing
ClearTimeoutNothing(queue, id) == queue

\* clearTimeout(t) of the debounced update of field id
ClearTimeout(queue, id) == {tm \in queue : tm.fn # id}

\* t = setTimeout(fn, wait)
SetTimeout(queue, id, wait) == queue \cup {[fn |-> id, left |-> wait]}

Idle == [kind |-> "idle", id |-> "", val |-> NaN, errors |-> <<>>]

Min(a, b) == IF a < b THEN a ELSE b

InitApp ==
  /\ inputs = [loanAmount |-> NaN, annualRate |-> NaN, years |-> NaN]
  /\ result = NoResult
  /\ pc = "idle"
  /\ NoLocals
  /\ state = InitialState
  /\ el = InitialTexts
  /\ timeouts = {}
  /\ dom = EmptyPage
  /\ caller = [kind |-> "init", id |-> "", val |-> NaN, errors |-> <<>>]
  /\ burst = NoBurst
  /\ chart = NoChart

\* init() line 53 and recalc() lines 113-118, up to the call of the engine
RecalcBegin ==
  /\ caller.kind = "init"
  /\ LET in == [loanAmount |-> state.loanAmount, annualRate |-> state.annualRate,
                years |-> state.years]
         errors == validateAllInputs(in)
     IN  IF DOMAIN errors # {}
         THEN /\ setState([errors |-> errors] @@ NoResultFields,
                          [dom EXCEPT !.summary = DOMAIN errors])
              /\ caller' = Idle
              /\ UNCHANGED engineVars
         ELSE /\ inputs' = in
              /\ pc' = "ready"
              /\ caller' = [kind |-> "recalc", id |-> "", val |-> NaN, errors |-> errors]
              /\ UNCHANGED <<result, P, r, n, payment, bal, y, schedule,
                             totalInterest, totalPrincipal, state, dom>>
  /\ UNCHANGED <<el, timeouts, burst>>
  /\ UNCHANGED chart

\* recalc() lines 118-119: the engine returned
RecalcEnd ==
  /\ caller.kind = "recalc"
  /\ pc = "returned"
  /\ setState(ResultFields(result), dom)
  /\ pc' = "idle"
  /\ caller' = Idle
  /\ UNCHANGED <<inputs, result, P, r, n, payment, bal, y, schedule,
                 totalInterest, totalPrincipal, el, timeouts, burst>>
  /\ UNCHANGED chart

\* the debounced function of utils.js lines 6-8, called for an event on field id
Debounced(id) ==
  /\ timeouts' = SetTimeout(ClearTimeout(timeouts, id), id, DebounceWait)
  /\ burst' = [of |-> [burst.of EXCEPT ![id] = [events |-> 1, since |-> 0, runs |-> 0]],
                restarted |-> \E tm \in timeouts : tm.fn = id]

\* the user edits field id: an 'input' event (line 109)
InputEvent(id, text) ==
  /\ caller.kind = "idle"
  /\ el' = [el EXCEPT ![id] = text]
  /\ Debounced(id)
  /\ UNCHANGED <<engineVars, state, dom, caller>>
  /\ UNCHANGED chart

\* field id loses focus after an edit: a 'change' event (line 110)
ChangeEvent(id) ==
  /\ caller.kind = "idle"
  /\ Debounced(id)
  /\ UNCHANGED <<engineVars, state, el, dom, caller>>
  /\ UNCHANGED chart

\* dt ms pass: no timer is due earlier
Tick(dt) ==
  /\ caller.kind = "idle"
  /\ timeouts # {}
  /\ \A tm \in timeouts : tm.left >= dt
  /\ timeouts' = {[tm EXCEPT !.left = @ - dt] : tm \in timeouts}
  /\ burst' = [burst EXCEPT !.of = [f \in Fields |->
                 IF burst.of[f].events > 0 /\ burst.of[f].runs = 0
                 THEN [burst.of[f] EXCEPT !.since = Min(@ + dt, 2 * DebounceWait)]
                 ELSE burst.of[f]]]
  /\ UNCHANGED <<engineVars, state, el, dom, caller>>
  /\ UNCHANGED chart

\* lines 60-75 and 97-105: a timer of field id is due and the update body
\* runs, up to the call of the engine
UpdateBegin(id) ==
  /\ caller.kind = "idle"
  /\ [fn |-> id, left |-> 0] \in timeouts
  /\ timeouts' = timeouts \ {[fn |-> id, left |-> 0]}
  /\ burst' = [burst EXCEPT !.of[id].runs = Min(@ + 1, 2)]
  /\ LET val == parseFloat(el[id])
         currentValues == CurrentValues(id, val)
         errors == validateAllInputs(currentValues)
         page == [dom EXCEPT !.summary = DOMAIN errors]
     IN  IF DOMAIN errors = {}
         THEN /\ inputs' = currentValues
              /\ pc' = "ready"
              /\ caller' = [kind |-> "update", id |-> id, val |-> val, errors |-> errors]
              /\ dom' = page
              /\ UNCHANGED <<result, P, r, n, payment, bal, y, schedule,
                             totalInterest, totalPrincipal, state>>
         ELSE /\ setState((id :> val) @@ [errors |-> errors] @@ NoResultFields, page)
              /\ caller' = Idle
              /\ UNCHANGED engineVars
  /\ UNCHANGED el
  /\ UNCHANGED chart

\* lines 78-85: the engine returned to the update body
UpdateEnd ==
  /\ caller.kind = "update"
  /\ pc = "returned"
  /\ setState((caller.id :> caller.val) @@ [errors |-> caller.errors]
                @@ ResultFields(result), dom)
  /\ pc' = "idle"
  /\ caller' = Idle
  /\ UNCHANGED <<inputs, result, P, r, n, payment, bal, y, schedule,
                 totalInterest, totalPrincipal, el, timeouts, burst>>
  /\ UNCHANGED chart

\* lines 181-191: click on the chart button
ClickChart ==
  /\ caller.kind = "idle"
  /\ state' = Assign(state, [viewMode |-> "chart"])
  /\ LET page == handleStateChange(state', dom)
     IN  dom' = IF state'.schedule # Null
                THEN [page EXCEPT !.chart = renderChart(state'.schedule[1])]
                ELSE page
  /\ UNCHANGED <<engineVars, el, timeouts, caller, burst>>
  /\ UNCHANGED chart

\* lines 193-207: click on the table button
ClickTable ==
  /\ caller.kind = "idle"
  /\ state' = Assign(state, [viewMode |-> "table"])
  /\ LET page == [handleStateChange(state', dom) EXCEPT !.chart = Null]
     IN  dom' = IF state'.schedule # Null /\ state'.totals # Null
                THEN [page EXCEPT !.table = renderScheduleTable(state'.schedule[1],
                                                                state'.totals[1])]
                ELSE page
  /\ UNCHANGED <<engineVars, el, timeouts, caller, burst>>
  /\ UNCHANGED chart

NextApp ==
  \/ RecalcBegin
  \/ EnterZeroRate
  \/ ZeroRateIteration
  \/ ZeroRateReturn
  \/ EnterPositiveRate
  \/ PositiveRateIteration
  \/ PositiveRateReturn
  \/ RecalcEnd
  \/ \E id \in Fields : \E text \in FieldTexts[id] : InputEvent(id, text)
  \/ \E id \in Fields : ChangeEvent(id)
  \/ \E dt \in TimeSteps : Tick(dt)
  \/ \E id \in Fields : UpdateBegin(id)
  \/ UpdateEnd
  \/ ClickChart
  \/ ClickTable

SpecApp == InitApp /\ [][NextApp]_vars

----------------------------------------------------------------------------
(* The chart module: renderChart, setupKeyboardNavigation and the listeners *)
(* of the canvas.  A listener is the closure of one render: it holds the    *)
(* number of that render and the rows it was given.  Indices count from 0.  *)

\* the rows of a schedule of len years
Rows(len) == [i \in 1..len |-> [year |-> i]]

Schedules == {Rows(len) : len \in 1..MaxRows}

Keys == {"ArrowRight", "ArrowDown", "ArrowLeft", "ArrowUp", "Home", "End", "Tab"}

Max(a, b) == IF a > b THEN a ELSE b

\* lines 345-372: the index a key moves the focus to
NewIndex(key, index, maxIndex) ==
  CASE key \in {"ArrowRight", "ArrowDown"} -> Min(index + 1, maxIndex)
    [] key \in {"ArrowLeft", "ArrowUp"}    -> Max(index - 1, 0)
    [] key = "Home"                        -> 0
    [] key = "End"                         -> maxIndex
    [] OTHER                               -> index

\* the access rows[index] of a listener of render gen
Read(listener, index) ==
  [gen |-> listener.gen, len |-> Len(listener.rows), index |-> index]

\* canvas.removeEventListener(type, old)
RemoveListener(registered, old) ==
  SelectSeq(registered, LAMBDA l : Some(l) # old)

InitChart ==
  /\ inputs = [loanAmount |-> NaN, annualRate |-> NaN, years |-> NaN]
  /\ result = NoResult
  /\ pc = "idle"
  /\ NoLocals
  /\ CallerAtRest

\* renderChart(rows), lines 75-329, and setupKeyboardNavigation, lines
\* 337-413: only the old keydown listener is removed
RenderChart(rows) ==
  /\ chart.renders < MaxRenders
  /\ LET listener == [gen |-> chart.renders + 1, rows |-> rows]
     IN  chart' = [chart EXCEPT
           !.containerListeners = @ + 1,
           !.chartInstance = Some(Len(rows)),
           !.currentFocusIndex = 0,
           !.listeners =
              [keydown   |-> Append(RemoveListener(@.keydown, chart.keydownListener),
                                    listener),
               focus     |-> Append(@.focus, listener),
               blur      |-> Append(@.blur, listener),
               mousemove |-> Append(@.mousemove, listener)],
           !.keydownListener = Some(listener),
           !.renders = @ + 1,
           !.invoked = <<>>,
           !.reads = <<>>]
  /\ UNCHANGED <<engineVars, pageVars>>

\* destroyChart(), lines 476-481: the click on the table button hides the
\* canvas
DestroyChart ==
  /\ chart.chartInstance # Null
  /\ chart' = [chart EXCEPT !.chartInstance = Null, !.focused = FALSE,
                            !.invoked = <<>>, !.reads = <<>>]
  /\ UNCHANGED <<engineVars, pageVars>>

\* the keydown listeners run in the order of their registration: the focus
\* index after them and the rows they read
RECURSIVE RunKeydown(_, _, _, _, _)
RunKeydown(registered, i, key, index, reads) ==
  IF i > Len(registered) THEN [index |-> index, reads |-> reads]
  ELSE LET new == NewIndex(key, index, Len(registered[i].rows) - 1)
       IN  IF new # index
           THEN RunKeydown(registered, i + 1, key, new,
                           Append(reads, Read(registered[i], new)))
           ELSE RunKeydown(registered, i + 1, key, index, reads)

Invoked(type) == [i \in 1..Len(chart.listeners[type]) |-> chart.listeners[type][i].gen]

\* a key is pressed on the focused canvas, lines 345-383
KeyDown(key) ==
  /\ chart.focused
  /\ chart.chartInstance # Null
  /\ LET run == RunKeydown(chart.listeners.keydown, 1, key, chart.currentFocusIndex, <<>>)
     IN  chart' = [chart EXCEPT
           !.isKeyboardMode = TRUE,
           !.currentFocusIndex = run.index,
           !.invoked = Invoked("keydown"),
           !.reads = run.reads]
  /\ UNCHANGED <<engineVars, pageVars>>

\* the canvas receives the focus: every focus listener announces the row at
\* the focus index, lines 390-394
Focus ==
  /\ ~chart.focused
  /\ chart.chartInstance # Null
  /\ chart' = [chart EXCEPT
        !.focused = TRUE,
        !.isKeyboardMode = TRUE,
        !.invoked = Invoked("focus"),
        !.reads = [i \in 1..Len(chart.listeners.focus) |->
                     Read(chart.listeners.focus[i], chart.currentFocusIndex)]]
  /\ UNCHANGED <<engineVars, pageVars>>

\* the canvas loses the focus, lines 396-399
Blur ==
  /\ chart.focused
  /\ chart.chartInstance # Null
  /\ chart' = [chart EXCEPT !.focused = FALSE, !.invoked = Invoked("blur"),
                            !.reads = <<>>]
  /\ UNCHANGED <<engineVars, pageVars>>

\* the mouse moves over the canvas, lines 405-407
MouseMove ==
  /\ chart.chartInstance # Null
  /\ chart' = [chart EXCEPT !.isKeyboardMode = FALSE, !.invoked = Invoked("mousemove"),
                            !.reads = <<>>]
  /\ UNCHANGED <<engineVars, pageVars>>

NextChart ==
  \/ \E rows \in Schedules : RenderChart(rows)
  \/ DestroyChart
  \/ \E key \in Keys : KeyDown(key)
  \/ Focus
  \/ Blur
  \/ MouseMove

SpecChart == InitChart /\ [][NextChart]_vars

----------------------------------------------------------------------------
(* Repeated calls: runSelfTests calls the engine three times in a row, the *)
(* page calls it after every valid update.  The caller keeps the arguments *)
(* and the result of the first call; the locals of a call keep whatever    *)
(* the call before left in them until the call assigns them.               *)

RepeatInputs ==
  [loanAmount : {FromInt(1000), FromInt(300000)},
   annualRate : {Zero, Lit(1, -7), Lit(13, -1)},
   years      : {FromInt(1), FromInt(2), Lit(5, -1)}]

InitRepeat ==
  /\ inputs \in RepeatInputs
  /\ result = NoResult
  /\ pc = "ready"
  /\ NoLocals
  /\ CallerAtRest

\* the caller keeps the first result, then calls again
CallAgain ==
  /\ pc = "returned"
  /\ state' = IF state.schedule = Null
              THEN Assign(state, inputs @@ ResultFields(result))
              ELSE state
  /\ inputs' \in RepeatInputs
  /\ pc' = "ready"
  /\ UNCHANGED <<result, P, r, n, payment, bal, y, schedule, totalInterest,
                 totalPrincipal, el, timeouts, dom, caller, burst>>
  /\ UNCHANGED chart

NextRepeat ==
  \/ EnterZeroRate
  \/ ZeroRateIteration
  \/ ZeroRateReturn
  \/ EnterPositiveRate
  \/ PositiveRateIteration
  \/ PositiveRateReturn
  \/ CallAgain

SpecRepeat == InitRepeat /\ [][NextRepeat]_vars

----------------------------------------------------------------------------
(* Properties of computeMortgage *)

Returned == pc = "returned"

LoanOf(in) == in.loanAmount

\* the rate r the engine works with
RateOf(in) == FDiv(in.annualRate, FromInt(100))

ZeroRateCall == FEq(RateOf(inputs), Zero)

\* x rounded to the nearest integer, halves away from zero (x finite)
HalfAwayFromZero(x) ==
  IF x.e >= 0 THEN x.s * x.m * Pow2(x.e)
  ELSE x.s * ((x.m * 2 + Pow2(-x.e)) \div Pow2(1 - x.e))

TermOf(in) == HalfAwayFromZero(in.years)

\* the balance a row starts from
BalanceBefore(i) ==
  IF i = 1 THEN LoanOf(inputs) ELSE result.schedule[i - 1].endingBalance

\* C1: the schedule has exactly N rows, N the term rounded half away from
\* zero, and row i (1-based here) carries year i, in both branches.
C1_RowCount ==
  Returned =>
    /\ Len(result.schedule) = TermOf(inputs)
    /\ \A i \in 1..Len(result.schedule) : result.schedule[i].year = i

\* a fractional term of 2.5 years at a positive rate returned 3 rows
C1_Witness ==
  /\ Returned
  /\ inputs.years = Lit(5, -1)
  /\ ~ZeroRateCall
  /\ Len(result.schedule) = 3

\* C2: the endingBalance of the last row is exactly 0 in both branches.
C2_FinalBalanceZero ==
  Returned =>
    /\ Len(result.schedule) >= 1
    /\ result.schedule[Len(result.schedule)].endingBalance = Zero

\* a positive-rate schedule whose last row started from a positive balance
C2_Witness ==
  /\ Returned
  /\ ~ZeroRateCall
  /\ Len(result.schedule) >= 2
  /\ FLt(Zero, BalanceBefore(Len(result.schedule)))
  /\ result.schedule[Len(result.schedule)].endingBalance = Zero

\* C3: endingBalance[y] = max(0, endingBalance[y-1] - principal[y]) with
\* endingBalance[0] the loan amount; every endingBalance is >= 0 and never
\* above the one before.
C3_BalanceDecay ==
  Returned =>
    \A i \in 1..Len(result.schedule) :
      LET row == result.schedule[i] IN
        /\ row.endingBalance = MathMax(Zero, FSub(BalanceBefore(i), row.principal))
        /\ FLe(Zero, row.endingBalance)
        /\ FLe(row.endingBalance, BalanceBefore(i))

\* a schedule of three or more rows whose balance strictly falls
C3_Witness ==
  /\ Returned
  /\ Len(result.schedule) >= 3
  /\ FLt(result.schedule[1].endingBalance, LoanOf(inputs))
  /\ FLt(result.schedule[2].endingBalance, result.schedule[1].endingBalance)

FAbs(a) == IF a.k = "nan" THEN a ELSE [a EXCEPT !.s = 1]

\* The claims' relative tolerance.  1e-6 is about 2^-20, three eighths of the
\* 53 bits of a binary64; the same share of the bits carried here.
Tolerance == Lit(1, -((3 * Precision) \div 8))

\* |a - b| <= Tolerance * max(|a|, |b|)
ApproxEq(a, b) ==
  FLe(FAbs(FSub(a, b)), FMul(Tolerance, MathMax(FAbs(a), FAbs(b))))

\* the sum, in row order, of the field f of rows 1..k
RECURSIVE RunningSum(_, _, _)
RunningSum(rows, f, k) ==
  IF k = 0 THEN Zero ELSE FAdd(RunningSum(rows, f, k - 1), rows[k][f])

LastRow == result.schedule[Len(result.schedule)]

\* the call of runSelfTests with these arguments
SelfTest(loan, rate, term) ==
  inputs = [loanAmount |-> loan, annualRate |-> rate, years |-> term]

\* C4: totals.interest + totals.principal equals totals.payment within the
\* tolerance in both branches; totals.payment is payment * N and, at a
\* positive rate, totals.interest and totals.principal are the running sums
\* over all rows.
C4_Conservation ==
  Returned =>
    /\ result.totals.payment = FMul(result.payment, FromInt(TermOf(inputs)))
    /\ ~ZeroRateCall =>
         /\ result.totals.interest =
              RunningSum(result.schedule, "interest", Len(result.schedule))
         /\ result.totals.principal =
              RunningSum(result.schedule, "principal", Len(result.schedule))
    /\ ApproxEq(FAdd(result.totals.interest, result.totals.principal),
                result.totals.payment)

\* C5: every row carries the same payment, the annual payment, and in every
\* row, the final one included, payment equals interest plus principal
\* within the tolerance.
C5_RowSplit ==
  Returned =>
    \A i \in 1..Len(result.schedule) :
      LET row == result.schedule[i] IN
        /\ row.payment = result.payment
        /\ ApproxEq(FAdd(row.interest, row.principal), row.payment)

\* C6: at rate 0 the payment is principal / N, every row has interest 0, the
\* first N-1 rows have principal component = payment, the final row's is the
\* remaining balance, and the totals are interest 0, principal the loan
\* amount, payment = payment * N; 120000 over 10 years gives 12000 and 120000.
C6_ZeroRate ==
  (Returned /\ ZeroRateCall) =>
    LET N == TermOf(inputs) IN
      /\ result.payment = FDiv(LoanOf(inputs), FromInt(N))
      /\ \A i \in 1..Len(result.schedule) :
           /\ result.schedule[i].interest = Zero
           /\ i < N => result.schedule[i].principal = result.payment
           /\ i = N => result.schedule[i].principal = BalanceBefore(i)
      /\ result.totals.interest = Zero
      /\ result.totals.principal = LoanOf(inputs)
      /\ result.totals.payment = FMul(result.payment, FromInt(N))
      /\ SelfTest(FromInt(120000), Zero, FromInt(10)) =>
           /\ result.payment = FromInt(12000)
           /\ result.totals.payment = FromInt(120000)

\* a zero-rate schedule whose division left a residue: the final row's
\* principal component is the remaining balance and differs from the payment
C6_Witness ==
  /\ Returned
  /\ ZeroRateCall
  /\ Len(result.schedule) >= 2
  /\ LastRow.principal = BalanceBefore(Len(result.schedule))
  /\ LastRow.principal # result.payment

\* C7: at a positive rate every row's interest is balance_before * r; before
\* the final year the principal component is payment - interest; in the
\* final year it is balance_before, the interest still being
\* balance_before * r.
C7_PositiveRateRows ==
  (Returned /\ ~ZeroRateCall) =>
    LET N == TermOf(inputs) IN
      \A i \in 1..Len(result.schedule) :
        LET row == result.schedule[i] IN
          /\ row.interest = FMul(BalanceBefore(i), RateOf(inputs))
          /\ i < N => row.principal = FSub(result.payment, row.interest)
          /\ i = N => row.principal = BalanceBefore(i)

\* a positive-rate schedule whose final row was overridden: its principal
\* component is the balance before, not payment - interest, and its interest
\* is positive
C7_Witness ==
  /\ Returned
  /\ ~ZeroRateCall
  /\ Len(result.schedule) >= 2
  /\ LastRow.principal = BalanceBefore(Len(result.schedule))
  /\ LastRow.principal # FSub(result.payment, LastRow.interest)
  /\ FLt(Zero, LastRow.interest)

\* C8: totals.principal equals the sum of the rows' principal components and
\* the loan amount, within the tolerance, and before the final year
\* max(0, .) discards nothing: the principal component never exceeds the
\* balance it is taken from.
C8_PrincipalTotal ==
  Returned =>
    /\ ApproxEq(result.totals.principal,
                RunningSum(result.schedule, "principal", Len(result.schedule)))
    /\ ApproxEq(result.totals.principal, LoanOf(inputs))
    /\ \A i \in 1..(Len(result.schedule) - 1) :
         FLe(result.schedule[i].principal, BalanceBefore(i))

\* C9: a term of one year returns exactly one row; its payment is the loan
\* amount plus one year of interest on it (within the tolerance), its
\* principal component the whole loan amount, its endingBalance 0.
C9_SinglePeriod ==
  (Returned /\ TermOf(inputs) = 1) =>
    /\ Len(result.schedule) = 1
    /\ ApproxEq(result.schedule[1].payment,
                FAdd(LoanOf(inputs), FMul(LoanOf(inputs), RateOf(inputs))))
    /\ result.schedule[1].principal = LoanOf(inputs)
    /\ result.schedule[1].endingBalance = Zero

\* C10: at a positive rate the denominator (1+r)^N - 1 is strictly positive
\* and the payment is principal * r * (1+r)^N over it; 300000 at 6.5% over
\* 30 years pays within [22000, 24000], 100000 at 10% over 5 years within
\* [25000, 27000].
C10_AnnuityFormula ==
  (Returned /\ ~ZeroRateCall) =>
    LET rate == RateOf(inputs)
        term == FromInt(TermOf(inputs))
        pow  == MathPow(FAdd(FromInt(1), rate), term)
    IN /\ FLt(Zero, FSub(pow, FromInt(1)))
       /\ result.payment =
            FDiv(FMul(LoanOf(inputs), FMul(rate, pow)), FSub(pow, FromInt(1)))
       /\ SelfTest(FromInt(300000), Lit(13, -1), FromInt(30)) =>
            FLe(FromInt(22000), result.payment) /\ FLe(result.payment, FromInt(24000))
       /\ SelfTest(FromInt(100000), FromInt(10), FromInt(5)) =>
            FLe(FromInt(25000), result.payment) /\ FLe(result.payment, FromInt(27000))

\* principal <= 0, or a term that rounds to less than 1 (or is NaN)
PreconditionViolated(in) ==
  \/ ~FLt(Zero, in.loanAmount)
  \/ ~FLe(FromInt(1), MathRound(in.years))

RowFinite(row) ==
  /\ IsFinite(row.payment) /\ IsFinite(row.interest)
  /\ IsFinite(row.principal) /\ IsFinite(row.endingBalance)

ResultFinite(res) ==
  /\ IsFinite(res.payment)
  /\ IsFinite(res.totals.payment)
  /\ IsFinite(res.totals.interest)
  /\ IsFinite(res.totals.principal)
  /\ \A i \in 1..Len(res.schedule) : RowFinite(res.schedule[i])

\* C11: the engine fails fast instead of returning: it never returns for
\* inputs that violate its preconditions, never returns a payment, totals
\* or rows holding NaN or Infinity, and never returns an empty schedule.
C11_FailFast ==
  Returned =>
    /\ ~PreconditionViolated(inputs)
    /\ ResultFinite(result)
    /\ Len(result.schedule) >= 1

\* the arguments of the call are those of the first call, whose result the
\* caller kept
SameAsFirst ==
  /\ state.schedule # Null
  /\ inputs = [loanAmount |-> state.loanAmount, annualRate |-> state.annualRate,
               years |-> state.years]

\* C13: a call with the inputs of the first call returns the payment,
\* schedule and totals the first call returned, whatever calls happened in
\* between and whatever they left behind.
C13_SameInputsSameResult ==
  Returned /\ SameAsFirst =>
    /\ Some(result.payment) = state.payment
    /\ Some(result.schedule) = state.schedule
    /\ Some(result.totals) = state.totals

\* a zero-rate call repeats the first call after a positive-rate call, whose
\* running totals are still in place
C13_Witness ==
  /\ Returned /\ SameAsFirst
  /\ ZeroRateCall
  /\ IsFinite(totalInterest) /\ ~IsZero(totalInterest)
  /\ Len(result.schedule) = 3

----------------------------------------------------------------------------
(* Properties of the page *)

AtRest == caller.kind = "idle"

StoredInputs ==
  [loanAmount |-> state.loanAmount, annualRate |-> state.annualRate,
   years |-> state.years]

ResultAllNull == state.schedule = Null /\ state.payment = Null /\ state.totals = Null

ResultAllSet == state.schedule # Null /\ state.payment # Null /\ state.totals # Null

\* C12: the result fields of the state are all null or all non-null at every
\* moment, and between handlers the non-null ones are the payment, schedule
\* and totals that one call of computeMortgage (the latest) returned.
C12_AllOrNothing ==
  /\ ResultAllNull \/ ResultAllSet
  /\ AtRest /\ ResultAllSet =>
       /\ state.payment = Some(result.payment)
       /\ state.schedule = Some(result.schedule)
       /\ state.totals = Some(result.totals)

\* a result is stored after a field update and a switch to the table view
C12_Witness ==
  /\ AtRest /\ ResultAllSet
  /\ state.viewMode = "table"
  /\ burst.of["years"].runs = 1
  /\ state.years = FromInt(2)

InCall == pc \in {"ready", "zeroRateLoop", "positiveRateLoop", "returned"}

Within(x, lo, hi) == ~IsNaN(x) /\ FLe(FromInt(lo), x) /\ FLe(x, FromInt(hi))

\* C14: validation precedes calculation: whenever computeMortgage runs for
\* recalc or for a field update, validateAllInputs returned no error for
\* its argument: loanAmount is in [1000, 10000000], annualRate in [0, 25],
\* years in [1, 40], none is NaN, and the rounded term is at least 1.
C14_ValidatedCall ==
  InCall =>
    /\ caller.kind \in {"recalc", "update"}
    /\ DOMAIN caller.errors = {}
    /\ Within(inputs.loanAmount, 1000, 10000000)
    /\ Within(inputs.annualRate, 0, 25)
    /\ Within(inputs.years, 1, 40)
    /\ FLe(FromInt(1), MathRound(inputs.years))

\* the update of the years field calls the engine while the page shows the
\* errors of an earlier update
C14_Witness ==
  /\ pc = "ready"
  /\ caller.kind = "update" /\ caller.id = "years"
  /\ state.errors # <<>>
  /\ inputs.years = FromInt(2)

\* C15: when validation fails the caller presents "no result": the result
\* fields are null and the page shows no results card, and no chart or
\* table of an earlier calculation in the visible view.
C15_NoResultPresented ==
  AtRest /\ state.schedule = Null =>
    /\ state.payment = Null /\ state.totals = Null
    /\ dom.results = Null
    /\ state.viewMode = "chart" => dom.chart = Null
    /\ state.viewMode = "table" => dom.table = Null

\* C16: between handlers a stored schedule is never stale: it is what
\* computeMortgage returned for the loanAmount, annualRate and years now
\* stored in the state, and those stored values pass validation.
C16_ScheduleCurrent ==
  AtRest /\ state.schedule # Null =>
    /\ inputs = StoredInputs
    /\ state.schedule = Some(result.schedule)
    /\ DOMAIN validateAllInputs(StoredInputs) = {}

\* two fields were updated, one after the other, and a schedule is stored
C16_Witness ==
  /\ AtRest /\ state.schedule # Null
  /\ state.years = FromInt(2) /\ state.annualRate = Zero
  /\ burst.of["years"].runs = 1 /\ burst.of["annualRate"].runs = 1
  /\ Len(state.schedule[1]) = 2

TimersOf(id) == {tm \in timeouts : tm.fn = id}

\* C17: the update of a field is debounced: after an event on the field
\* either the body has not run and exactly one timer of the field is
\* pending, due DebounceWait ms after the latest event, whatever the events
\* on the other fields; or the body ran exactly once, DebounceWait ms after
\* the latest event, no timer of the field is left, and the state holds the
\* value the field had at that time.
C17_Debounced ==
  \A id \in Fields :
    burst.of[id].events > 0 =>
      \/ /\ burst.of[id].runs = 0
         /\ TimersOf(id) = {[fn |-> id, left |-> DebounceWait - burst.of[id].since]}
      \/ /\ burst.of[id].runs = 1
         /\ burst.of[id].since = DebounceWait
         /\ TimersOf(id) = {}
         /\ AtRest => state[id] = parseFloat(el[id])

\* the only events were a burst on the years field whose latest event
\* replaced a pending timer, and the body has run
C17_Witness ==
  /\ AtRest
  /\ burst.restarted
  /\ burst.of["years"].runs = 1
  /\ burst.of["loanAmount"].events = 0 /\ burst.of["annualRate"].events = 0
  /\ state.years = parseFloat(el["years"])

----------------------------------------------------------------------------
(* Properties of the chart *)

EventTypes == {"keydown", "focus", "blur", "mousemove"}

\* C18: after any number of renders only the listeners the most recent
\* render created are registered on the canvas, one per event type, and no
\* listener of an earlier render is invoked.
C18_OnlyLatestListeners ==
  chart.renders >= 1 =>
    /\ \A type \in EventTypes :
         /\ Len(chart.listeners[type]) = 1
         /\ chart.listeners[type][1].gen = chart.renders
    /\ \A i \in 1..Len(chart.invoked) : chart.invoked[i] = chart.renders

\* C19: every announcement reads an existing row: the index is within
\* 0 .. rows.length - 1 of the rows of the listener that reads.
C19_ReadsInRange ==
  \A i \in 1..Len(chart.reads) :
    /\ chart.reads[i].index >= 0
    /\ chart.reads[i].index <= chart.reads[i].len - 1

====
